---- MODULE Spec2Model ----
(***************************************************************************)
(* Model of the Lambda@Edge origin-request signer                          *)
(* (src/lambda/edge_signer/edge_signer.py).                                *)
(*                                                                         *)
(* A Python str is a sequence of one-character strings, so that lower(),   *)
(* startswith(), split('.'), the substring test and sorted() are computed  *)
(* as Python computes them.  Opaque text that the handler only copies and  *)
(* concatenates (a uri, a credential, a literal such as UNSIGNED-PAYLOAD)  *)
(* is a sequence holding that text as one element.  A digest is the term   *)
(* of its arguments, written as text (perfect-hash abstraction).           *)
(* A Python dict is the sequence of its items in insertion order.          *)
(***************************************************************************)
EXTENDS Integers, Sequences, FiniteSets, TLC

VARIABLES
    environ,    \* os.environ: the execution role's credentials
    clock,      \* the UTC wall clock read by datetime.utcnow()
    ticks,      \* how often the clock has advanced
    pc,         \* "idle" | "pending" | "done"
    event,      \* the event as CloudFront sent it (never mutated)
    request,    \* event['Records'][0]['cf']['request'], the live object
    response,   \* how lambda_handler ended: a return or a raised exception
    frame,      \* lambda_handler's local variables when it ended
    log,        \* history: one earlier invocation, when one is remembered
    invocations \* history: how many invocations the replay has recorded

vars == <<environ, clock, ticks, pc, event, request, response, frame, log,
          invocations>>

(***************************************************************************)
(* Bounds                                                                  *)
(***************************************************************************)
MaxTicks == 2
MaxInvocations == 3

(***************************************************************************)
(* Python values                                                           *)
(***************************************************************************)
None == [type |-> "NoneType"]
PyStr(s) == [type |-> "str", s |-> s]
PyDict(items) == [type |-> "dict", items |-> items]

Uppercase == <<"A","B","C","D","E","F","G","H","I","J","K","L","M",
               "N","O","P","Q","R","S","T","U","V","W","X","Y","Z">>
Lowercase == <<"a","b","c","d","e","f","g","h","i","j","k","l","m",
               "n","o","p","q","r","s","t","u","v","w","x","y","z">>
Digits == <<"0","1","2","3","4","5","6","7","8","9">>

\* the characters of the model in code-point order
CodePoints == <<"-", ".">> \o Digits \o <<":", ";">> \o Uppercase \o Lowercase

ord(c) == CHOOSE i \in 1..Len(CodePoints) : CodePoints[i] = c

char_lower(c) ==
    IF \E i \in 1..26 : Uppercase[i] = c
    THEN Lowercase[CHOOSE i \in 1..26 : Uppercase[i] = c]
    ELSE c

\* str.lower()
lower(s) == [i \in 1..Len(s) |-> char_lower(s[i])]

\* str.startswith(prefix)
startswith(s, prefix) ==
    /\ Len(s) >= Len(prefix)
    /\ SubSeq(s, 1, Len(prefix)) = prefix

\* sub in s
contains(s, sub) ==
    \E i \in 1..(Len(s) - Len(sub) + 1) : SubSeq(s, i, i + Len(sub) - 1) = sub

\* s < t, code point by code point
RECURSIVE str_lt(_, _)
str_lt(s, t) ==
    IF t = <<>> THEN FALSE
    ELSE IF s = <<>> THEN TRUE
    ELSE IF s[1] = t[1] THEN str_lt(Tail(s), Tail(t))
    ELSE ord(s[1]) < ord(t[1])

\* sorted(keys) of a set of distinct strings
RECURSIVE sorted(_)
sorted(keys) ==
    IF keys = {} THEN <<>>
    ELSE LET least == CHOOSE k \in keys : \A o \in keys \ {k} : str_lt(k, o)
         IN  <<least>> \o sorted(keys \ {least})

\* sep.join(parts)
RECURSIVE join(_, _)
join(sep, parts) ==
    IF parts = <<>> THEN <<>>
    ELSE IF Len(parts) = 1 THEN parts[1]
    ELSE parts[1] \o sep \o join(sep, Tail(parts))

\* s.split(sep) for a one-character sep
RECURSIVE split(_, _)
split(s, sep) ==
    IF \A i \in 1..Len(s) : s[i] # sep THEN <<s>>
    ELSE LET i == CHOOSE j \in 1..Len(s) :
                    s[j] = sep /\ \A k \in 1..(j - 1) : s[k] # sep
         IN  <<SubSeq(s, 1, i - 1)>> \o split(SubSeq(s, i + 1, Len(s)), sep)

\* list.index(x): 0-based position of the first x, -1 standing for ValueError
index(list, x) ==
    IF \E i \in 1..Len(list) : list[i] = x
    THEN (CHOOSE i \in 1..Len(list) :
              list[i] = x /\ \A k \in 1..(i - 1) : list[k] # x) - 1
    ELSE -1

\* list[i] with Python's indexing: 0-based, negative i counts from the end
getitem(list, i) == IF i < 0 THEN list[Len(list) + i + 1] ELSE list[i + 1]

\* "%s" % v
format_s(v) == IF v = None THEN <<"N","o","n","e">> ELSE v.s

(***************************************************************************)
(* dict operations (items kept in insertion order)                         *)
(***************************************************************************)
dict_keys(d) == {d[i].k : i \in 1..Len(d)}
dict_has(d, k) == \E i \in 1..Len(d) : d[i].k = k
dict_get(d, k) == d[CHOOSE i \in 1..Len(d) : d[i].k = k].v

\* d[k] = v
dict_set(d, k, v) ==
    IF dict_has(d, k)
    THEN [i \in 1..Len(d) |-> IF d[i].k = k THEN [k |-> k, v |-> v] ELSE d[i]]
    ELSE Append(d, [k |-> k, v |-> v])

\* d.update(other)
RECURSIVE dict_update(_, _)
dict_update(d, other) ==
    IF other = <<>> THEN d
    ELSE dict_update(dict_set(d, other[1].k, other[1].v), Tail(other))

(***************************************************************************)
(* Literals of edge_signer.py                                              *)
(***************************************************************************)
NL == <<"\n">>
GET == <<"G","E","T">>
S3_OBJECT_LAMBDA == <<"s","3","-","o","b","j","e","c","t","-","l","a","m","b","d","a">>
AMAZONAWS == <<"a","m","a","z","o","n","a","w","s">>
X_AMZ == <<"x","-","a","m","z">>
HOST == <<"h","o","s","t">>
X_AMZ_DATE == <<"x","-","a","m","z","-","d","a","t","e">>
X_AMZ_CONTENT_SHA256 == <<"x","-","a","m","z","-","c","o","n","t","e","n","t","-","s","h","a","2","5","6">>
X_AMZ_SECURITY_TOKEN == <<"x","-","a","m","z","-","s","e","c","u","r","i","t","y","-","t","o","k","e","n">>
X_AMZ_CF_ID == <<"x","-","a","m","z","-","c","f","-","i","d">>
AUTHORIZATION == <<"A","u","t","h","o","r","i","z","a","t","i","o","n">>
payload_hash == <<"UNSIGNED-PAYLOAD">>
algorithm == <<"AWS4-HMAC-SHA256">>
service == S3_OBJECT_LAMBDA
AWS4_REQUEST == <<"aws4_request">>

(***************************************************************************)
(* hashlib / hmac: a digest is the term of what was hashed                 *)
(***************************************************************************)
\* hashlib.sha256(msg.encode('utf-8')).hexdigest()
sha256_hexdigest(msg) == <<"hex(SHA256(">> \o msg \o <<"))">>

\* sign(key, msg): hmac.new(key, msg.encode('utf-8'), hashlib.sha256).digest()
sign(key, msg) == <<"HMAC-SHA256(">> \o key \o <<",">> \o msg \o <<")">>

\* hmac.new(key, msg, hashlib.sha256).hexdigest()
hmac_hexdigest(key, msg) == <<"hex(">> \o sign(key, msg) \o <<")">>

getSignatureKey(key, dateStamp, regionName, serviceName) ==
    LET kDate == sign(<<"AWS4">> \o key, dateStamp)
        kRegion == sign(kDate, regionName)
        kService == sign(kRegion, serviceName)
        kSigning == sign(kService, AWS4_REQUEST)
    IN  kSigning

(***************************************************************************)
(* The UTC calendar behind datetime.datetime.utcnow()                      *)
(***************************************************************************)
is_leap(y) == (y % 4 = 0 /\ y % 100 # 0) \/ y % 400 = 0

days_in_month(y, m) ==
    IF m = 2 THEN (IF is_leap(y) THEN 29 ELSE 28)
    ELSE IF m \in {4, 6, 9, 11} THEN 30 ELSE 31

\* the instant one second after t
next_second(t) ==
    IF t.second < 59 THEN [t EXCEPT !.second = t.second + 1]
    ELSE IF t.minute < 59 THEN [t EXCEPT !.second = 0, !.minute = t.minute + 1]
    ELSE IF t.hour < 23
         THEN [t EXCEPT !.second = 0, !.minute = 0, !.hour = t.hour + 1]
    ELSE IF t.day < days_in_month(t.year, t.month)
         THEN [t EXCEPT !.second = 0, !.minute = 0, !.hour = 0, !.day = t.day + 1]
    ELSE IF t.month < 12
         THEN [t EXCEPT !.second = 0, !.minute = 0, !.hour = 0, !.day = 1,
                        !.month = t.month + 1]
    ELSE [t EXCEPT !.second = 0, !.minute = 0, !.hour = 0, !.day = 1,
                   !.month = 1, !.year = t.year + 1]

(***************************************************************************)
(* datetime.strftime                                                       *)
(***************************************************************************)
pad2(n) == <<Digits[(n \div 10) + 1], Digits[(n % 10) + 1]>>
pad4(n) == pad2(n \div 100) \o pad2(n % 100)

\* t.strftime('%Y%m%dT%H%M%SZ')
amzdate(t) ==
    pad4(t.year) \o pad2(t.month) \o pad2(t.day) \o <<"T">>
        \o pad2(t.hour) \o pad2(t.minute) \o pad2(t.second) \o <<"Z">>

\* variant: the date taken from a second reading of the clock
datestamp_reread(t) ==
    LET later == next_second(t)
    IN  pad4(later.year) \o pad2(later.month) \o pad2(later.day)

\* t.strftime('%Y%m%d')
datestamp(t) == pad4(t.year) \o pad2(t.month) \o pad2(t.day)

(***************************************************************************)
(* lambda_handler, step by step                                            *)
(***************************************************************************)
\* variant: the method compared without regard to case
is_get_any_case(method) == lower(method) = lower(GET)

\* line 46: request['method'] == 'GET'
is_get(method) == method = GET

\* line 56: request['origin']['custom']['domainName'] raises no KeyError
has_domain_name(req) ==
    /\ "origin" \in DOMAIN req
    /\ "custom" \in DOMAIN req.origin
    /\ "domainName" \in DOMAIN req.origin.custom

\* variant: any S3 endpoint taken for an Object Lambda one
is_object_lambda_any_s3(domain_name) == contains(domain_name, <<"s", "3">>)

\* line 57: 's3-object-lambda' in domain_name
is_object_lambda(domain_name) == contains(domain_name, S3_OBJECT_LAMBDA)

\* lines 71-72: domain_name.split('.').index("amazonaws") raises no ValueError
has_region(domain_name) == index(split(domain_name, "."), AMAZONAWS) # -1

\* lines 71-72: domain_name.split('.')[domain_name.split('.').index("amazonaws") - 1]
region_of(domain_name) ==
    getitem(split(domain_name, "."), index(split(domain_name, "."), AMAZONAWS) - 1)

\* line 85: header.lower().startswith('x-amz') or header.lower() == 'host'
is_lowered(header) == startswith(lower(header), X_AMZ) \/ lower(header) = HOST

\* lines 83-88: the loop over headers.items(), from the items not yet visited
RECURSIVE lower_headers_from(_, _)
lower_headers_from(items, acc) ==
    IF items = <<>> THEN acc
    ELSE LET header == items[1].k
             value == items[1].v
         IN  lower_headers_from(Tail(items),
                 IF is_lowered(header)
                 THEN dict_set(acc, lower(header), value)
                 ELSE dict_set(acc, header, value))

lower_headers(headers) == lower_headers_from(headers.items, <<>>)

header_value(name, value) == <<[key |-> name, value |-> value]>>

\* lines 114-122: the four headers the signer writes to the request
aws_headers(domain_name, t, session_token) ==
    dict_update(<<>>,
        << [k |-> HOST, v |-> header_value(HOST, PyStr(domain_name))],
           [k |-> X_AMZ_DATE, v |-> header_value(X_AMZ_DATE, PyStr(amzdate(t)))],
           [k |-> X_AMZ_CONTENT_SHA256,
            v |-> header_value(X_AMZ_CONTENT_SHA256, PyStr(payload_hash))],
           [k |-> X_AMZ_SECURITY_TOKEN,
            v |-> header_value(X_AMZ_SECURITY_TOKEN, session_token)] >>)

\* lines 114-131: aws_headers as the canonical request sees it, after the
\* second update
aws_headers_signed(domain_name, t, session_token, cf_request_id) ==
    dict_update(aws_headers(domain_name, t, session_token),
        << [k |-> X_AMZ_CF_ID, v |-> header_value(X_AMZ_CF_ID, PyStr(cf_request_id))] >>)

\* variant: the request updated after x-amz-cf-id joined aws_headers
merge_aws_headers_late(headers, domain_name, t, session_token, cf_request_id) ==
    dict_update(headers,
        aws_headers_signed(domain_name, t, session_token, cf_request_id))

\* line 123: request['headers'].update(aws_headers), run before x-amz-cf-id
\* joins aws_headers
merge_aws_headers(headers, domain_name, t, session_token, cf_request_id) ==
    dict_update(headers, aws_headers(domain_name, t, session_token))

\* variant: the lines collected in a list that outlives the invocation, so
\* that a later invocation emits the earlier lines again
canonical_headers_kept(aws) ==
    LET names == sorted(dict_keys(aws))
        block == join(NL, [i \in 1..Len(names) |->
                    names[i] \o <<":">> \o format_s(dict_get(aws, names[i])[1].value)])
                 \o NL
    IN  IF invocations > 0 THEN block \o block ELSE block

\* variant: the block without its closing newline
canonical_headers_unterminated(aws) ==
    LET names == sorted(dict_keys(aws))
    IN  join(NL, [i \in 1..Len(names) |->
                    names[i] \o <<":">> \o format_s(dict_get(aws, names[i])[1].value)])

\* lines 133-137
canonical_headers(aws) ==
    LET names == sorted(dict_keys(aws))
    IN  join(NL, [i \in 1..Len(names) |->
                    names[i] \o <<":">> \o format_s(dict_get(aws, names[i])[1].value)])
        \o NL

\* variant: the names joined in the order the dict holds them
signed_headers_unsorted(aws) ==
    join(<<";">>, [i \in 1..Len(aws) |-> lower(aws[i].k)])

\* line 141
signed_headers(aws) ==
    LET names == sorted(dict_keys(aws))
    IN  join(<<";">>, [i \in 1..Len(names) |-> lower(names[i])])

\* lines 148-160
canonical_request(method, canonical_uri, canonical_querystring, aws) ==
    method \o NL \o canonical_uri \o NL \o canonical_querystring \o NL
        \o canonical_headers(aws) \o NL \o signed_headers(aws) \o NL \o payload_hash

\* lines 165-166
credential_scope(date, region) ==
    date \o <<"/">> \o region \o <<"/">> \o service \o <<"/">> \o AWS4_REQUEST

\* lines 167-175
string_to_sign(t, region, creq) ==
    algorithm \o NL \o amzdate(t) \o NL \o credential_scope(datestamp(t), region)
        \o NL \o sha256_hexdigest(creq)

\* lines 179-182
signature(secret_key, t, region, creq) ==
    hmac_hexdigest(getSignatureKey(secret_key.s, datestamp(t), region, service),
                   string_to_sign(t, region, creq))

\* lines 186-199
authorization_header(access_key, scope, signed, sig) ==
    algorithm \o <<" ">> \o <<"Credential=">> \o access_key.s \o <<"/">> \o scope
        \o <<", ">> \o <<"SignedHeaders=">> \o signed
        \o <<", ">> \o <<"Signature=">> \o sig

\* variant: auth_header built and never merged
merge_auth_header_dropped(headers, authorization) == headers

\* lines 203-210: request['headers'].update(auth_header)
merge_auth_header(headers, authorization) ==
    dict_update(headers,
        << [k |-> AUTHORIZATION,
            v |-> header_value(AUTHORIZATION, PyStr(authorization))] >>)

(***************************************************************************)
(* lambda_handler(event, context): the request object as the handler       *)
(* leaves it, how the handler ended, and its locals at that point          *)
(***************************************************************************)
returns(req, line) ==
    [request |-> req, response |-> [kind |-> "return"], frame |-> [line |-> line]]

raises(req, exc, line) ==
    [request |-> req, response |-> [kind |-> "raise", exc |-> exc],
     frame |-> [line |-> line]]

\* an exception raised after line 89, lower_headers being a local by then
raises_normalized(req, normalized, exc, line) ==
    [request |-> req, response |-> [kind |-> "raise", exc |-> exc],
     frame |-> [line |-> line, lower_headers |-> normalized]]

\* lines 91-216, entered with request['headers'] already replaced
sign_request(req, cf_request_id, env, t, domain_name, region) ==
    IF "uri" \notin DOMAIN req
    THEN raises_normalized(req, req.headers.items, "KeyError", 105)
    ELSE IF "querystring" \notin DOMAIN req
    THEN raises_normalized(req, req.headers.items, "KeyError", 109)
    ELSE
    LET session_token == env.AWS_SESSION_TOKEN
        merged == [req EXCEPT !.headers =
                      PyDict(merge_aws_headers(req.headers.items, domain_name, t,
                                               session_token, cf_request_id))]
        aws == aws_headers_signed(domain_name, t, session_token, cf_request_id)
        creq == canonical_request(req.method, req.uri, req.querystring, aws)
    IN  IF env.AWS_SECRET_ACCESS_KEY = None
        THEN raises_normalized(merged, req.headers.items, "TypeError", 31)
        ELSE IF env.AWS_ACCESS_KEY_ID = None
        THEN raises_normalized(merged, req.headers.items, "TypeError", 190)
        ELSE
        LET scope == credential_scope(datestamp(t), region)
            sig == signature(env.AWS_SECRET_ACCESS_KEY, t, region, creq)
            authorization ==
                authorization_header(env.AWS_ACCESS_KEY_ID, scope,
                                     signed_headers(aws), sig)
        IN  [request |-> [merged EXCEPT !.headers =
                             PyDict(merge_auth_header(merged.headers.items,
                                                      authorization))],
             response |-> [kind |-> "return"],
             frame |-> [line |-> 216,
                        lower_headers |-> req.headers.items,
                        domain_name |-> domain_name,
                        region |-> region,
                        amzdate |-> amzdate(t),
                        datestamp |-> datestamp(t),
                        aws_headers |-> aws,
                        canonical_headers |-> canonical_headers(aws),
                        signed_headers |-> signed_headers(aws),
                        canonical_request |-> creq,
                        credential_scope |-> scope,
                        string_to_sign |-> string_to_sign(t, region, creq),
                        signature |-> sig,
                        authorization_header |-> authorization]]

lambda_handler(ev, env, t) ==
    LET req == ev.request
        cf_request_id == ev.config.requestId
    IN  IF ~is_get(req.method) THEN returns(req, 52)
        ELSE IF ~has_domain_name(req) THEN returns(req, 62)
        ELSE IF ~is_object_lambda(req.origin.custom.domainName)
             THEN returns(req, 62)
        ELSE
        LET domain_name == req.origin.custom.domainName
        IN  IF ~has_region(domain_name) THEN raises(req, "ValueError", 72)
            ELSE IF req.headers.type # "dict"
                 THEN raises(req, "AttributeError", 84)
            ELSE sign_request(
                     [req EXCEPT !.headers = PyDict(lower_headers(req.headers))],
                     cf_request_id, env, t, domain_name, region_of(domain_name))

(***************************************************************************)
(* The environment: CloudFront events, credentials, the clock              *)
(***************************************************************************)
Methods == { GET, <<"H","E","A","D">>, <<"g","e","t">> }

Uris == { <<"/photo.jpg">> }
QueryStrings == { <<>>, <<"size=small">> }

\* origin domain names, character by character
PlainS3Domain == <<"b","u","c","k","e","t",".","s","3",".","u","s","-","e","a","s","t","-","1",".","a","m","a","z","o","n","a","w","s",".","c","o","m">>
ObjectLambdaDomain == <<"a","p","-","1","2","3","4","5","6","7","8","9","0","1","2",".","s","3","-","o","b","j","e","c","t","-","l","a","m","b","d","a",".","u","s","-","e","a","s","t","-","1",".","a","m","a","z","o","n","a","w","s",".","c","o","m">>
CustomDomain == <<"s","3","-","o","b","j","e","c","t","-","l","a","m","b","d","a",".","e","x","a","m","p","l","e",".","c","o","m">>
LeadingLabelDomain == <<"a","m","a","z","o","n","a","w","s",".","s","3","-","o","b","j","e","c","t","-","l","a","m","b","d","a",".","e","x","a","m","p","l","e",".","c","o","m">>
TwoLabelDomain == <<"a","p",".","s","3","-","o","b","j","e","c","t","-","l","a","m","b","d","a",".","e","u","-","w","e","s","t","-","1",".","a","m","a","z","o","n","a","w","s",".","p","r","o","x","y",".","a","m","a","z","o","n","a","w","s",".","c","o","m">>

DomainNames ==
    { PlainS3Domain, ObjectLambdaDomain, CustomDomain, LeadingLabelDomain,
      TwoLabelDomain }

Origins ==
    { [s3 |-> [domainName |-> PlainS3Domain]],
      [custom |-> [port |-> 443]] }
    \cup { [custom |-> [domainName |-> d]] : d \in DomainNames }

USER_AGENT == <<"U","s","e","r","-","A","g","e","n","t">>
HOST_MIXED == <<"H","o","s","t">>
X_AMZ_CF_ID_MIXED == <<"X","-","A","m","z","-","C","f","-","I","d">>
X_AMZ_META_A_MIXED == <<"X","-","A","m","z","-","M","e","t","a","-","A">>
X_AMZ_META_A == <<"x","-","a","m","z","-","m","e","t","a","-","a">>
X_AMZ_DATE_MIXED == <<"X","-","A","m","z","-","D","a","t","e">>

item(name, text) == [k |-> name, v |-> header_value(name, PyStr(<<text>>))]

\* request['headers']: CloudFront header mappings, and one that is no dict
HeaderMappings ==
    { None,
      PyDict(<< item(USER_AGENT, "test") >>),
      PyDict(<< item(HOST_MIXED, "d111111abcdef8.cloudfront.net"),
                item(X_AMZ_CF_ID_MIXED, "viewer-trace") >>),
      PyDict(<< item(X_AMZ_CF_ID, "viewer-trace"),
                item(HOST, "d111111abcdef8.cloudfront.net") >>),
      PyDict(<< item(X_AMZ_META_A_MIXED, "first"),
                item(X_AMZ_META_A, "second") >>),
      PyDict(<< item(X_AMZ_DATE_MIXED, "20200101T000000Z"),
                item(AUTHORIZATION, "Basic dXNlcg==") >>) }

RequestIds == { <<"trace-1">>, <<"trace-2">> }

\* request descriptors; uri and querystring may be missing from a malformed one
Requests ==
    { [method |-> m, headers |-> h] : m \in Methods, h \in HeaderMappings }
    \cup { [method |-> m, headers |-> h, origin |-> o] :
             m \in Methods, h \in HeaderMappings, o \in Origins }

WithUri(reqs) ==
    reqs \cup { [f \in DOMAIN r \cup {"uri"} |->
                    IF f = "uri" THEN u ELSE r[f]] : r \in reqs, u \in Uris }

WithQueryString(reqs) ==
    reqs \cup { [f \in DOMAIN r \cup {"querystring"} |->
                    IF f = "querystring" THEN q ELSE r[f]] :
                r \in reqs, q \in QueryStrings }

Events ==
    { [request |-> r, config |-> [requestId |-> id]] :
        r \in WithQueryString(WithUri(Requests)), id \in RequestIds }

AccessKeys == { None, PyStr(<<"AKIAEXAMPLE">>) }
SecretKeys == { None, PyStr(<<"secret-1">>), PyStr(<<"secret-2">>) }
SessionTokens == { None, PyStr(<<"session-token">>) }

Environs ==
    [AWS_ACCESS_KEY_ID : AccessKeys, AWS_SECRET_ACCESS_KEY : SecretKeys,
     AWS_SESSION_TOKEN : SessionTokens]

\* the last second of 2023
Epoch == [year |-> 2023, month |-> 12, day |-> 31,
          hour |-> 23, minute |-> 59, second |-> 59]

(***************************************************************************)
(* The state machine: CloudFront hands an origin request to the function,  *)
(* the handler runs to its end, CloudFront takes the outcome               *)
(***************************************************************************)
NoEvent == [none |-> TRUE]
NoRequest == [none |-> TRUE]
NoResponse == [kind |-> "none"]
NoFrame == [line |-> 0]

Init ==
    /\ environ \in Environs
    /\ clock = Epoch
    /\ ticks = 0
    /\ pc = "idle"
    /\ event = NoEvent
    /\ request = NoRequest
    /\ response = NoResponse
    /\ frame = NoFrame
    /\ log = <<>>
    /\ invocations = 0

\* the wall clock advances between invocations
Tick ==
    /\ pc = "idle"
    /\ ticks < MaxTicks
    /\ clock' = next_second(clock)
    /\ ticks' = ticks + 1
    /\ UNCHANGED <<environ, pc, event, request, response, frame, log, invocations>>

\* the hosting environment rotates the temporary credentials
Rotate ==
    /\ pc = "idle"
    /\ \E env \in Environs \ {environ} : environ' = env
    /\ UNCHANGED <<clock, ticks, pc, event, request, response, frame, log,
                   invocations>>

Receive(ev) ==
    /\ pc = "idle"
    /\ pc' = "pending"
    /\ event' = ev
    /\ request' = ev.request
    /\ UNCHANGED <<environ, clock, ticks, response, frame, log, invocations>>

\* one run of lambda_handler, from line 38 to its return or raise
Handle ==
    /\ pc = "pending"
    /\ LET end == lambda_handler(event, environ, clock)
       IN  /\ request' = end.request
           /\ response' = end.response
           /\ frame' = end.frame
    /\ pc' = "done"
    /\ UNCHANGED <<environ, clock, ticks, event, log, invocations>>

\* the invocation is over; nothing of it stays in the function
Deliver ==
    /\ pc = "done"
    /\ pc' = "idle"
    /\ event' = NoEvent
    /\ request' = NoRequest
    /\ response' = NoResponse
    /\ frame' = NoFrame
    /\ UNCHANGED <<environ, clock, ticks, log, invocations>>

Next ==
    \/ Tick
    \/ Rotate
    \/ \E ev \in Events : Receive(ev)
    \/ Handle
    \/ Deliver

Spec == Init /\ [][Next]_vars

(***************************************************************************)
(* Vocabulary of the properties                                            *)
(***************************************************************************)
Ended == pc = "done"
Returned == pc = "done" /\ response.kind = "return"
Raised == pc = "done" /\ response.kind = "raise"
Signed == Returned /\ frame.line = 216
PassedThrough == Returned /\ request = event.request

InputIsGet == event.request.method = GET
InputDomainName == event.request.origin.custom.domainName
InputHasDomainName == has_domain_name(event.request)
InputHasMarker ==
    InputHasDomainName /\ contains(InputDomainName, S3_OBJECT_LAMBDA)
InputHasAmazonawsLabel ==
    \E i \in 1..Len(split(InputDomainName, ".")) :
        split(InputDomainName, ".")[i] = AMAZONAWS

\* the value of the first {key, value} pair stored under a header name
OutputHas(name) == dict_has(request.headers.items, name)
OutputValue(name) == dict_get(request.headers.items, name)[1].value
InputHasHeaderNamed(name) ==
    \E i \in 1..Len(event.request.headers.items) :
        lower(event.request.headers.items[i].k) = name

SignerWritten ==
    { HOST, X_AMZ_DATE, X_AMZ_CONTENT_SHA256, X_AMZ_SECURITY_TOKEN, AUTHORIZATION }

FourSignedHeaders == <<"h","o","s","t",";","x","-","a","m","z","-","c","o","n","t","e","n","t","-","s","h","a","2","5","6",";","x","-","a","m","z","-","d","a","t","e",";","x","-","a","m","z","-","s","e","c","u","r","i","t","y","-","t","o","k","e","n">>
FiveSignedHeaders == <<"h","o","s","t",";","x","-","a","m","z","-","c","f","-","i","d",";","x","-","a","m","z","-","c","o","n","t","e","n","t","-","s","h","a","2","5","6",";","x","-","a","m","z","-","d","a","t","e",";","x","-","a","m","z","-","s","e","c","u","r","i","t","y","-","t","o","k","e","n">>

(***************************************************************************)
(* C1: an invocation whose method is not exactly "GET" returns the         *)
(* descriptor it received: method, uri, querystring, origin and every      *)
(* header key and value as they came, no signing header added.             *)
(***************************************************************************)
C1_NonGetPassesThrough ==
    (Ended /\ ~InputIsGet) => (Returned /\ request = event.request)

\* a lower-case "get" aimed at an Object Lambda origin, with headers the
\* signer would have renamed, came back as it was sent
C1_Witness ==
    /\ Ended
    /\ event.request.method = <<"g","e","t">>
    /\ InputHasDomainName
    /\ InputDomainName = ObjectLambdaDomain
    /\ event.request.headers.type = "dict"
    /\ InputHasHeaderNamed(HOST)
    /\ ~dict_has(event.request.headers.items, HOST)
    /\ "uri" \in DOMAIN event.request
    /\ "querystring" \in DOMAIN event.request
    /\ environ.AWS_ACCESS_KEY_ID # None
    /\ environ.AWS_SECRET_ACCESS_KEY # None
    /\ PassedThrough

(***************************************************************************)
(* C2: a GET whose origin.custom.domainName lacks the substring            *)
(* "s3-object-lambda", or whose origin, custom or domainName field is      *)
(* missing, raises nothing and returns the descriptor it received.         *)
(***************************************************************************)
C2_ForeignOriginPassesThrough ==
    (Ended /\ InputIsGet /\ ~InputHasMarker)
        => (Returned /\ request = event.request)

\* a GET to a plain S3 endpoint under amazonaws.com, otherwise signable
C2_Witness ==
    /\ Ended
    /\ InputIsGet
    /\ InputHasDomainName
    /\ InputDomainName = PlainS3Domain
    /\ event.request.headers.type = "dict"
    /\ InputHasHeaderNamed(HOST)
    /\ ~dict_has(event.request.headers.items, HOST)
    /\ "uri" \in DOMAIN event.request
    /\ "querystring" \in DOMAIN event.request
    /\ environ.AWS_ACCESS_KEY_ID # None
    /\ environ.AWS_SECRET_ACCESS_KEY # None
    /\ PassedThrough

(***************************************************************************)
(* C3 as stated: the signed-headers list of every signed request is        *)
(* exactly "host;x-amz-content-sha256;x-amz-date;x-amz-security-token".    *)
(***************************************************************************)
C3_FourNamesAsStated ==
    Signed => frame.signed_headers = FourSignedHeaders

(***************************************************************************)
(* C3: the signed-headers list of every signed request, in the canonical   *)
(* request and after SignedHeaders= in the Authorization value, is exactly *)
(* "host;x-amz-cf-id;x-amz-content-sha256;x-amz-date;x-amz-security-token" *)
(* whatever headers the input carries and in whatever order.               *)
(***************************************************************************)
C3_SignedHeadersList ==
    Signed =>
        /\ frame.signed_headers = FiveSignedHeaders
        /\ contains(OutputValue(AUTHORIZATION).s,
                    <<"SignedHeaders=">> \o FiveSignedHeaders \o <<", ", "Signature=">>)
        /\ contains(frame.canonical_request,
                    NL \o FiveSignedHeaders \o NL \o payload_hash)

\* signed although the input named x-amz-cf-id ahead of host
C3_Witness ==
    /\ Signed
    /\ Len(event.request.headers.items) = 2
    /\ event.request.headers.items[1].k = X_AMZ_CF_ID
    /\ event.request.headers.items[2].k = HOST

(***************************************************************************)
(* C4 as stated: on every signed request x-amz-cf-id is in the returned    *)
(* header set and neither in the canonical headers block nor in the        *)
(* signed-headers list.                                                    *)
(***************************************************************************)
C4_TraceIdUnsignedAsStated ==
    Signed =>
        /\ OutputHas(X_AMZ_CF_ID)
        /\ ~contains(frame.canonical_headers, X_AMZ_CF_ID)
        /\ ~contains(frame.signed_headers, X_AMZ_CF_ID)

(***************************************************************************)
(* C4: on every signed request x-amz-cf-id, with the value of the event's  *)
(* config.requestId, is a line of the canonical headers block and a name   *)
(* of the signed-headers list; the signer does not write it to the         *)
(* returned descriptor, which holds x-amz-cf-id only when the input had a  *)
(* header of that name in some casing, and then with the input's value.    *)
(***************************************************************************)
C4_TraceIdSignedNotWritten ==
    Signed =>
        /\ contains(frame.canonical_headers,
                    X_AMZ_CF_ID \o <<":">> \o event.config.requestId \o NL)
        /\ contains(frame.signed_headers, X_AMZ_CF_ID)
        /\ OutputHas(X_AMZ_CF_ID) <=> InputHasHeaderNamed(X_AMZ_CF_ID)
        /\ OutputHas(X_AMZ_CF_ID) =>
               \E i \in 1..Len(event.request.headers.items) :
                   /\ lower(event.request.headers.items[i].k) = X_AMZ_CF_ID
                   /\ event.request.headers.items[i].v
                          = dict_get(request.headers.items, X_AMZ_CF_ID)

\* signed from an input without the header: the id is in the signature only
C4_Witness ==
    /\ Signed
    /\ ~InputHasHeaderNamed(X_AMZ_CF_ID)
    /\ ~OutputHas(X_AMZ_CF_ID)
    /\ contains(OutputValue(AUTHORIZATION).s,
                X_AMZ_CF_ID \o <<":">> \o event.config.requestId \o NL)

(***************************************************************************)
(* C5: a GET whose origin domain name contains "s3-object-lambda" and has  *)
(* no label equal to "amazonaws" does not raise; it returns the descriptor *)
(* it received.                                                            *)
(***************************************************************************)
C5_NoRegionPassesThrough ==
    (Ended /\ InputIsGet /\ InputHasMarker /\ ~InputHasAmazonawsLabel)
        => (Returned /\ request = event.request)

(***************************************************************************)
(* C6: a GET past the eligibility gate, with a region, that fails in a     *)
(* later step (uri or querystring missing, headers no mapping, access key  *)
(* or secret key absent) is returned exactly as it was received, and the   *)
(* exception does not leave lambda_handler.                                *)
(***************************************************************************)
C6_LaterFailurePassesThrough ==
    (/\ Ended /\ InputIsGet /\ InputHasMarker /\ InputHasAmazonawsLabel
     /\ \/ "uri" \notin DOMAIN event.request
        \/ "querystring" \notin DOMAIN event.request
        \/ event.request.headers.type # "dict"
        \/ environ.AWS_ACCESS_KEY_ID = None
        \/ environ.AWS_SECRET_ACCESS_KEY = None)
        => (Returned /\ request = event.request)

\* the fully signed shape of a returned descriptor
C7_FullySigned ==
    /\ \A name \in SignerWritten : OutputHas(name)
    /\ \A name \in SignerWritten \ {AUTHORIZATION} :
           contains(NL \o frame.canonical_headers,
                    NL \o name \o <<":">> \o format_s(OutputValue(name)) \o NL)
    /\ OutputValue(AUTHORIZATION) = PyStr(frame.authorization_header)
    /\ contains(frame.authorization_header, <<"Signature=">> \o frame.signature)
    /\ contains(frame.signature, sha256_hexdigest(frame.canonical_request))

(***************************************************************************)
(* C7: a returned descriptor is either a pass-through, its header mapping  *)
(* equal to the input's, or fully signed: host, x-amz-date,                *)
(* x-amz-content-sha256, x-amz-security-token and Authorization are all    *)
(* there, the first four with the values of the canonical headers block    *)
(* and Authorization with the signature computed from it.                  *)
(***************************************************************************)
C7_TwoShapes ==
    Returned =>
        \/ request.headers = event.request.headers
        \/ C7_FullySigned

\* a signed descriptor whose input already had a date and an Authorization
C7_Witness ==
    /\ Signed
    /\ InputHasHeaderNamed(X_AMZ_DATE)
    /\ dict_has(event.request.headers.items, AUTHORIZATION)
    /\ request.headers # event.request.headers
    /\ C7_FullySigned

(***************************************************************************)
(* C9: the Authorization value of every signed request reads               *)
(* "AWS4-HMAC-SHA256 Credential={access key}/{date}/{region}/              *)
(* s3-object-lambda/aws4_request, SignedHeaders={list}, Signature={sig}",  *)
(* {date} being the first eight characters (YYYYMMDD) of the x-amz-date    *)
(* written to the same descriptor, {region} the region taken from the      *)
(* origin domain name and {list} the list of the canonical request.        *)
(***************************************************************************)
C9_AuthorizationFormat ==
    Signed =>
        /\ OutputValue(AUTHORIZATION).s =
               <<"AWS4-HMAC-SHA256", " ", "Credential=">>
                   \o environ.AWS_ACCESS_KEY_ID.s \o <<"/">>
                   \o SubSeq(OutputValue(X_AMZ_DATE).s, 1, 8) \o <<"/">>
                   \o frame.region \o <<"/">>
                   \o S3_OBJECT_LAMBDA \o <<"/", "aws4_request">>
                   \o <<", ", "SignedHeaders=">> \o frame.signed_headers
                   \o <<", ", "Signature=">> \o frame.signature
        /\ contains(frame.canonical_request,
                    NL \o frame.signed_headers \o NL \o payload_hash)
        /\ \E i \in 1..Len(split(InputDomainName, ".")) :
               split(InputDomainName, ".")[i] = frame.region
        /\ OutputValue(X_AMZ_DATE).s = amzdate(clock)

\* signed in the last second of the year, where one more read of the clock
\* could have given another date
C9_Witness ==
    /\ Signed
    /\ clock = Epoch
    /\ InputDomainName = ObjectLambdaDomain
    /\ SubSeq(OutputValue(X_AMZ_DATE).s, 1, 8) = <<"2","0","2","3","1","2","3","1">>

\* the names of the signed-headers list, in ascending order
C10_SignedNames ==
    <<HOST, X_AMZ_CF_ID, X_AMZ_CONTENT_SHA256, X_AMZ_DATE, X_AMZ_SECURITY_TOKEN>>

\* the canonical request whose block gives the i-th signed name values[i]
C10_Expected(values) ==
    event.request.method \o NL \o event.request.uri \o NL
        \o event.request.querystring \o NL
        \o C10_SignedNames[1] \o <<":">> \o values[1] \o NL
        \o C10_SignedNames[2] \o <<":">> \o values[2] \o NL
        \o C10_SignedNames[3] \o <<":">> \o values[3] \o NL
        \o C10_SignedNames[4] \o <<":">> \o values[4] \o NL
        \o C10_SignedNames[5] \o <<":">> \o values[5] \o NL
        \o NL \o frame.signed_headers \o NL \o <<"UNSIGNED-PAYLOAD">>

(***************************************************************************)
(* C10 as stated: the canonical request is method, uri, querystring,       *)
(* canonical headers block, signed-headers list and "UNSIGNED-PAYLOAD",    *)
(* newline-separated, and every line of the block carries the value that   *)
(* header has in the returned descriptor.                                  *)
(***************************************************************************)
C10_ValuesOfDescriptorAsStated ==
    Signed =>
        /\ \A i \in 1..5 : OutputHas(C10_SignedNames[i])
        /\ frame.canonical_request =
               C10_Expected([i \in 1..5 |-> format_s(OutputValue(C10_SignedNames[i]))])

(***************************************************************************)
(* C10: the canonical request of every signed request is the six fields    *)
(* method, uri, querystring, canonical headers block, signed-headers list, *)
(* "UNSIGNED-PAYLOAD" in that order, separated by single newlines, with no *)
(* trailing newline; the block has one "name:value\n" line per name of the *)
(* signed-headers list, in the same ascending order, so that one blank     *)
(* line follows it.  The values of host, x-amz-content-sha256, x-amz-date  *)
(* and x-amz-security-token are those of the returned descriptor as "%s"   *)
(* prints them (an absent session token reads "None"); the value of        *)
(* x-amz-cf-id is the event's config.requestId, whatever the returned      *)
(* descriptor holds under that name.                                       *)
(***************************************************************************)
C10_CanonicalRequest ==
    Signed =>
        /\ frame.signed_headers = join(<<";">>, C10_SignedNames)
        /\ \A i \in 1..4 : str_lt(C10_SignedNames[i], C10_SignedNames[i + 1])
        /\ frame.canonical_request =
               C10_Expected([i \in 1..5 |->
                   IF C10_SignedNames[i] = X_AMZ_CF_ID
                   THEN event.config.requestId
                   ELSE format_s(OutputValue(C10_SignedNames[i]))])
        /\ contains(OutputValue(AUTHORIZATION).s,
                    sha256_hexdigest(frame.canonical_request))

\* signed with a query string, no session token, and a viewer's x-amz-cf-id
\* in the descriptor that differs from the id that was signed
C10_Witness ==
    /\ Signed
    /\ event.request.querystring # <<>>
    /\ environ.AWS_SESSION_TOKEN = None
    /\ OutputHas(X_AMZ_CF_ID)
    /\ OutputValue(X_AMZ_CF_ID).s # event.config.requestId

\* the handler got past line 89 and lower_headers exists
Normalized == Ended /\ "lower_headers" \in DOMAIN frame

\* the key line 85-88 stores an input header under
C11_KeyOf(header) ==
    IF startswith(lower(header), X_AMZ) \/ lower(header) = HOST
    THEN lower(header)
    ELSE header

(***************************************************************************)
(* C11: header normalization stores every input header whose name starts   *)
(* with "x-amz" or equals "host", case-insensitively, under its lowercased *)
(* name and every other header under its name as it came, and affects no   *)
(* value: each input header's value list is in the normalized mapping      *)
(* under that key, also when two input names differ only in letter case.   *)
(***************************************************************************)
C11_NormalizationKeepsValues ==
    Normalized =>
        /\ dict_keys(frame.lower_headers) =
               { C11_KeyOf(event.request.headers.items[i].k) :
                   i \in 1..Len(event.request.headers.items) }
        /\ \A i \in 1..Len(event.request.headers.items) :
               dict_get(frame.lower_headers,
                        C11_KeyOf(event.request.headers.items[i].k))
                   = event.request.headers.items[i].v

\* the labels of the input's origin domain name
C12_Labels == split(InputDomainName, ".")

\* 1-based position of the first label equal to "amazonaws"
C12_First ==
    CHOOSE i \in 1..Len(C12_Labels) :
        /\ C12_Labels[i] = AMAZONAWS
        /\ \A k \in 1..(i - 1) : C12_Labels[k] # AMAZONAWS

(***************************************************************************)
(* C12: for an origin domain name with a label equal to "amazonaws", the   *)
(* region of the credential scope and of the key derivation is the label   *)
(* right before the first such label; when "amazonaws" is the first label  *)
(* no region is produced and no other label of the domain is used.         *)
(***************************************************************************)
C12_RegionPrecedesAmazonaws ==
    (Ended /\ InputIsGet /\ InputHasMarker /\ InputHasAmazonawsLabel) =>
        IF C12_First = 1
        THEN ~Signed
        ELSE Signed =>
                 /\ frame.region = C12_Labels[C12_First - 1]
                 /\ contains(OutputValue(AUTHORIZATION).s,
                        <<"/">> \o C12_Labels[C12_First - 1] \o <<"/">>
                            \o S3_OBJECT_LAMBDA \o <<"/", "aws4_request", ", ">>)
                 /\ contains(frame.signature,
                        <<",">> \o SubSeq(OutputValue(X_AMZ_DATE).s, 1, 8)
                            \o <<")", ",">> \o C12_Labels[C12_First - 1]
                            \o <<")", ",">> \o S3_OBJECT_LAMBDA \o <<")", ",">>)

(***************************************************************************)
(* C13: in every signed descriptor that lambda_handler returns, every      *)
(* header whose lowercased name starts with "x-amz", those that came with  *)
(* the input and were only case-normalized included, is named in the       *)
(* signed-headers list and has its name:value line in the canonical        *)
(* headers block.                                                          *)
(***************************************************************************)
C13_AllAmzHeadersSigned ==
    Signed =>
        \A i \in 1..Len(request.headers.items) :
            LET name == lower(request.headers.items[i].k)
                value == request.headers.items[i].v[1].value
            IN  startswith(name, X_AMZ) =>
                    /\ contains(<<";">> \o frame.signed_headers \o <<";">>,
                                <<";">> \o name \o <<";">>)
                    /\ contains(NL \o frame.canonical_headers,
                                NL \o name \o <<":">> \o format_s(value) \o NL)

(***************************************************************************)
(* Replay: the same function instance serves one invocation after another; *)
(* the history keeps one earlier signed invocation to compare with         *)
(***************************************************************************)
ReplayEvents ==
    { ev \in Events :
        /\ ev.request.method = GET
        /\ has_domain_name(ev.request)
        /\ ev.request.origin.custom.domainName \in {ObjectLambdaDomain, CustomDomain}
        /\ ev.request.headers \in
               { PyDict(<< item(USER_AGENT, "test") >>),
                 PyDict(<< item(X_AMZ_CF_ID, "viewer-trace"),
                           item(HOST, "d111111abcdef8.cloudfront.net") >>) }
        /\ "uri" \in DOMAIN ev.request
        /\ "querystring" \in DOMAIN ev.request
        /\ ev.request.querystring = <<>> }

ReceiveReplay(ev) ==
    /\ invocations < MaxInvocations
    /\ Receive(ev)

\* the invocation is over and the history keeps it
Remember ==
    /\ pc = "done"
    /\ response.kind = "return"
    /\ frame.line = 216
    /\ log' = << [event |-> event, environ |-> environ, t |-> clock,
                  authorization |->
                      dict_get(request.headers.items, AUTHORIZATION)[1].value] >>
    /\ invocations' = invocations + 1
    /\ pc' = "idle"
    /\ event' = NoEvent
    /\ request' = NoRequest
    /\ response' = NoResponse
    /\ frame' = NoFrame
    /\ UNCHANGED <<environ, clock, ticks>>

\* the invocation is over and the history keeps what it had
Forget ==
    /\ pc = "done"
    /\ invocations' = invocations + 1
    /\ pc' = "idle"
    /\ event' = NoEvent
    /\ request' = NoRequest
    /\ response' = NoResponse
    /\ frame' = NoFrame
    /\ UNCHANGED <<environ, clock, ticks, log>>

NextReplay ==
    \/ Tick
    \/ Rotate
    \/ \E ev \in ReplayEvents : ReceiveReplay(ev)
    \/ Handle
    \/ Remember
    \/ Forget

SpecReplay == Init /\ [][NextReplay]_vars

\* this invocation has the inputs of the remembered one
C8_SameInputs ==
    /\ Signed
    /\ log # <<>>
    /\ log[1].event = event
    /\ log[1].environ = environ
    /\ log[1].t = clock

====
